---- MODULE Spec2Model ----
(***************************************************************************)
(* A model of the AirBnB listings data handler (AirBnBDataHandler.js) and  *)
(* of the calls its command line front end (cli.js) makes on it.           *)
(*                                                                         *)
(* JavaScript values are records [t, n, d, s]:                             *)
(*   t = "num"   the finite number n/d (d > 0, lowest terms)               *)
(*   t = "nan"   the number value NaN                                      *)
(*   t = "str"   the string whose characters are the sequence s            *)
(*   t = "undef" undefined,  t = "null" null                               *)
(*   t = "inf"   an infinity,  t = "obj" an object or function             *)
(* Texts are sequences of one-character strings.                           *)
(***************************************************************************)
EXTENDS Integers, Sequences, FiniteSets, TLC

\* ------------------------------------------------------------------ bounds
\* The longest input file, in data rows.
MaxRows == 2
\* The longest session, in calls made after the load.
MaxCalls == 2

\* ------------------------------------------------------------- JS values
RECURSIVE GCD(_, _)
GCD(a, b) == IF b = 0 THEN a ELSE GCD(b, a % b)

Abs(x) == IF x < 0 THEN -x ELSE x

Num(n, d) ==
  LET g == GCD(Abs(n), d)
  IN  [t |-> "num", n |-> n \div g, d |-> d \div g, s |-> <<>>]

IntNum(n) == Num(n, 1)
NaN == [t |-> "nan", n |-> 0, d |-> 1, s |-> <<>>]
Undef == [t |-> "undef", n |-> 0, d |-> 1, s |-> <<>>]
Null == [t |-> "null", n |-> 0, d |-> 1, s |-> <<>>]
Str(chars) == [t |-> "str", n |-> 0, d |-> 1, s |-> chars]
\* The result of dividing a non-zero number by zero (n is the sign).
Infinity(sign) == [t |-> "inf", n |-> sign, d |-> 1, s |-> <<>>]
\* An object or function value; s is the text its string conversion gives.
Obj(chars) == [t |-> "obj", n |-> 0, d |-> 1, s |-> chars]

Digits == <<"0", "1", "2", "3", "4", "5", "6", "7", "8", "9">>

IsDigit(c) == \E i \in 1..10 : Digits[i] = c

DigitVal(c) == (CHOOSE i \in 1..10 : Digits[i] = c) - 1

IsSpace(c) == c = " "

RECURSIVE Pow10(_)
Pow10(k) == IF k = 0 THEN 1 ELSE 10 * Pow10(k - 1)

RECURSIVE DigitsValue(_)
DigitsValue(chars) ==
  IF chars = <<>> THEN 0
  ELSE 10 * DigitsValue(SubSeq(chars, 1, Len(chars) - 1)) + DigitVal(chars[Len(chars)])

RECURSIVE TrimLeft(_)
TrimLeft(chars) ==
  IF chars # <<>> /\ IsSpace(chars[1]) THEN TrimLeft(Tail(chars)) ELSE chars

RECURSIVE TrimRight(_)
TrimRight(chars) ==
  IF chars # <<>> /\ IsSpace(chars[Len(chars)])
  THEN TrimRight(SubSeq(chars, 1, Len(chars) - 1))
  ELSE chars

Trim(chars) == TrimRight(TrimLeft(chars))

\* An unsigned decimal literal: digits with at most one ".", at least one digit.
UnsignedDecimal(chars) ==
  LET dots == {i \in 1..Len(chars) : chars[i] = "."}
      nondot == SelectSeq(chars, LAMBDA c : c # ".")
      fracLen == IF dots = {} THEN 0 ELSE Len(chars) - (CHOOSE i \in dots : TRUE)
  IN  IF /\ Cardinality(dots) <= 1
         /\ nondot # <<>>
         /\ \A i \in 1..Len(nondot) : IsDigit(nondot[i])
      THEN Num(DigitsValue(nondot), Pow10(fracLen))
      ELSE NaN

\* StringToNumber of ECMAScript, for texts over the characters of the model
\* (digits, ".", "-", "+", "$", ",", blank and letters other than the ones
\* that spell Infinity, an exponent or a radix prefix).
StringToNumber(chars) ==
  LET body == Trim(chars)
  IN  IF body = <<>> THEN IntNum(0)
      ELSE IF body[1] = "-"
           THEN LET u == UnsignedDecimal(Tail(body))
                IN  IF u.t = "num" THEN Num(-u.n, u.d) ELSE NaN
      ELSE IF body[1] = "+" THEN UnsignedDecimal(Tail(body))
      ELSE UnsignedDecimal(body)

\* ToNumber(v)
ToNumber(v) ==
  CASE v.t = "num" -> v
    [] v.t = "nan" -> NaN
    [] v.t = "undef" -> NaN
    [] v.t = "null" -> IntNum(0)
    [] v.t = "str" -> StringToNumber(v.s)
    [] v.t = "inf" -> v
    [] OTHER -> NaN

\* ToBoolean(v)
Truthy(v) ==
  CASE v.t = "num" -> v.n # 0
    [] v.t = "nan" -> FALSE
    [] v.t = "undef" -> FALSE
    [] v.t = "null" -> FALSE
    [] v.t = "str" -> v.s # <<>>
    [] OTHER -> TRUE

\* Character order of the model's alphabet (UTF-16 code units).
CharCode(c) ==
  CASE c = " " -> 32
    [] c = "$" -> 36
    [] c = "+" -> 43
    [] c = "," -> 44
    [] c = "-" -> 45
    [] c = "." -> 46
    [] IsDigit(c) -> 48 + DigitVal(c)
    [] c = "A" -> 65
    [] c = "B" -> 66
    [] c = "_" -> 95
    [] c = "a" -> 97
    [] c = "c" -> 99
    [] c = "n" -> 110
    [] c = "o" -> 111
    [] c = "p" -> 112
    [] c = "r" -> 114
    [] c = "s" -> 115
    [] c = "t" -> 116
    [] c = "u" -> 117
    [] OTHER -> 127

RECURSIVE TextLess(_, _)
TextLess(a, b) ==
  IF b = <<>> THEN FALSE
  ELSE IF a = <<>> THEN TRUE
  ELSE IF CharCode(a[1]) # CharCode(b[1]) THEN CharCode(a[1]) < CharCode(b[1])
  ELSE TextLess(Tail(a), Tail(b))

NumLess(x, y) == x.n * y.d < y.n * x.d

\* The < operator: two strings compare as texts, anything else as numbers, and
\* a comparison with NaN is false.
JsLess(a, b) ==
  IF a.t = "str" /\ b.t = "str" THEN TextLess(a.s, b.s)
  ELSE LET x == ToNumber(a)
           y == ToNumber(b)
       IN  x.t = "num" /\ y.t = "num" /\ NumLess(x, y)

\* The > operator.
JsGreater(a, b) == JsLess(b, a)

\* The + operator on two numbers.
NumAdd(x, y) ==
  IF x.t = "num" /\ y.t = "num" THEN Num(x.n * y.d + y.n * x.d, x.d * y.d) ELSE NaN

\* The - operator (ToNumber on both sides).
JsMinus(a, b) ==
  LET x == ToNumber(a)
      y == ToNumber(b)
  IN  IF x.t = "num" /\ y.t = "num" THEN Num(x.n * y.d - y.n * x.d, x.d * y.d) ELSE NaN

\* The / operator on two numbers.
NumDiv(x, y) ==
  IF x.t # "num" \/ y.t # "num" THEN NaN
  ELSE IF y.n = 0 THEN (IF x.n = 0 THEN NaN ELSE Infinity(IF x.n < 0 THEN -1 ELSE 1))
  ELSE IF y.n < 0 THEN Num(-(x.n * y.d), x.d * (-y.n))
  ELSE Num(x.n * y.d, x.d * y.n)

RECURSIVE NatToText(_)
NatToText(k) ==
  IF k < 10 THEN <<Digits[k + 1]>> ELSE NatToText(k \div 10) \o <<Digits[(k % 10) + 1]>>

\* ToString(v) for the values a host counter can hold.
ToText(v) ==
  CASE v.t = "str" -> v.s
    [] v.t = "obj" -> v.s
    [] v.t = "num" /\ v.d = 1 /\ v.n >= 0 -> NatToText(v.n)
    [] v.t = "undef" -> <<"undefined">>
    [] v.t = "null" -> <<"null">>
    [] OTHER -> <<"NaN">>

\* The + operator: text concatenation when either side is a string or an
\* object, numeric addition otherwise.
JsPlus(a, b) ==
  IF a.t \in {"str", "obj"} \/ b.t \in {"str", "obj"}
  THEN Str(ToText(a) \o ToText(b))
  ELSE NumAdd(ToNumber(a), ToNumber(b))

\* ------------------------------------------------------------ the input
\* The header line of the file: the columns in the order of the file.
Headers == <<"host_id", "bedrooms", "price", "review_scores_rating">>

ColumnOf(name) == CHOOSE i \in 1..Len(Headers) : Headers[i] = name

\* The rows a file of the model is made of: the cells of each data line, in
\* header order. A line with fewer cells than the header lacks its trailing
\* columns.
RowPalette ==
  { <<<<"7">>, <<"1">>, <<"$", "1", "0", "0">>, <<"9", "0">>>>,
    <<<<"A">>, <<"2">>, <<"$", "1", ",", "2", "0", "0", ".", "5", "0">>, <<"8", "0">>>>,
    <<<<>>, <<"0">>, <<"5", "0">>, <<>>>>,
    <<<<"3">>, <<"1">>, <<"1", ".", "2", ".", "3">>, <<"9", "0">>>>,
    <<<<"A">>, <<"a">>, <<"3", "0", "0">>, <<"7", "0">>>>,
    <<<<"c", "o", "n", "s", "t", "r", "u", "c", "t", "o", "r">>, <<"3">>,
      <<"3", "0", "0">>, <<"9", "5">>>>,
    <<<<"B">>, <<"2">>, <<"2", "0", "0">>>>,
    <<<<"B">>, <<"2">>>> }

RECURSIVE SeqsUpTo(_, _)
SeqsUpTo(S, k) ==
  IF k = 0 THEN {<<>>}
  ELSE LET shorter == SeqsUpTo(S, k - 1)
       IN  shorter \cup {Append(q, x) : q \in {r \in shorter : Len(r) = k - 1}, x \in S}

\* ------------------------------------------------------------ parseCSV
\* The object the CSV reader hands to the "data" callback for one line: one
\* string property per header the line has a cell for.
RowObject(cells) ==
  [h \in {Headers[i] : i \in 1..Len(Headers)} |->
     IF ColumnOf(h) <= Len(cells) THEN Str(cells[ColumnOf(h)]) ELSE Undef]

\* text.replace(/[^0-9.]/g, '')
StripNonNumeric(chars) == SelectSeq(chars, LAMBDA c : IsDigit(c) \/ c = ".")

\* row.price.replace(...) raises a TypeError when the row has no price.
RowThrows(row) == row.price.t # "str"

\* The "data" callback: price becomes a number, every other property is kept.
CoerceRow(row) ==
  [row EXCEPT !.price = StringToNumber(StripNonNumeric(row.price.s))]

RECURSIVE AnyRowThrows(_)
AnyRowThrows(rows) ==
  IF rows = <<>> THEN FALSE
  ELSE RowThrows(RowObject(Head(rows))) \/ AnyRowThrows(Tail(rows))

RECURSIVE parseCSV(_)
parseCSV(rows) ==
  IF rows = <<>> THEN <<>>
  ELSE <<CoerceRow(RowObject(Head(rows)))>> \o parseCSV(Tail(rows))

\* ------------------------------------------------- filterListings
BoundNames == {"minPrice", "maxPrice", "minRooms", "maxRooms", "minReview", "maxReview"}

NoBounds == [f \in BoundNames |-> Undef]

\* A criteria object: the properties it does not have read as undefined.
Criteria(props) ==
  [f \in BoundNames |-> IF f \in DOMAIN props THEN props[f] ELSE Undef]

\* The argument of a filterListings call: nothing (undefined), null, or an object.
NoArg == [kind |-> "undef", b |-> NoBounds]
NullArg == [kind |-> "null", b |-> NoBounds]
ObjArg(props) == [kind |-> "obj", b |-> Criteria(props)]
EmptyObjArg == [kind |-> "obj", b |-> NoBounds]

ArgPalette ==
  { NoArg,
    NullArg,
    EmptyObjArg,
    ObjArg([minPrice |-> IntNum(100)]),
    ObjArg([maxPrice |-> IntNum(250), minRooms |-> IntNum(1)]),
    ObjArg([maxRooms |-> IntNum(2), minReview |-> IntNum(80)]),
    ObjArg([maxReview |-> IntNum(90)]),
    ObjArg([maxPrice |-> Null]),
    ObjArg([minRooms |-> NaN]),
    ObjArg([minRooms |-> Str(<<"a">>)]) }

\* Destructuring a null parameter raises a TypeError (the default value is
\* used for undefined only).
DestructureThrows(arg) == arg.kind = "null"

\* A parameter pattern whose bounds default to 0.
DestructureZeroDefaults(arg) ==
  [f \in BoundNames |-> IF arg.b[f].t = "undef" THEN IntNum(0) ELSE arg.b[f]]

\* The parameter pattern { minPrice, ..., maxReview } = {}.
Destructure(arg) == IF arg.kind = "undef" THEN NoBounds ELSE arg.b

\* The callback of _listings.filter: true for a listing that stays.
Keep(listing, c) ==
  /\ ~(c.minPrice # Undef /\ JsLess(listing.price, c.minPrice))
  /\ ~(c.maxPrice # Undef /\ JsGreater(listing.price, c.maxPrice))
  /\ ~(c.minRooms # Undef /\ JsLess(listing.bedrooms, c.minRooms))
  /\ ~(c.maxRooms # Undef /\ JsGreater(listing.bedrooms, c.maxRooms))
  /\ ~(c.minReview # Undef /\ JsLess(listing.review_scores_rating, c.minReview))
  /\ ~(c.maxReview # Undef /\ JsGreater(listing.review_scores_rating, c.maxReview))

\* A filter that removes from the array while it walks it by index, so that
\* the element after a removed one is never tested.
RECURSIVE FilterArraySkipping(_, _)
FilterArraySkipping(arr, c) ==
  IF arr = <<>> THEN <<>>
  ELSE IF Keep(arr[1], c) THEN <<arr[1]>> \o FilterArraySkipping(Tail(arr), c)
  ELSE IF Len(arr) = 1 THEN <<>>
  ELSE <<arr[2]>> \o FilterArraySkipping(SubSeq(arr, 3, Len(arr)), c)

\* Array.prototype.filter: a new array of the kept elements, in order.
FilterArray(arr, c) == SelectSeq(arr, LAMBDA l : Keep(l, c))

\* --------------------------------------------------- computeStats
RECURSIVE TotalPrice(_)
TotalPrice(arr) ==
  IF arr = <<>> THEN IntNum(0)
  ELSE JsPlus(TotalPrice(SubSeq(arr, 1, Len(arr) - 1)), arr[Len(arr)].price)

RECURSIVE TotalRooms(_)
TotalRooms(arr) ==
  IF arr = <<>> THEN IntNum(0)
  ELSE JsPlus(TotalRooms(SubSeq(arr, 1, Len(arr) - 1)), ToNumber(arr[Len(arr)].bedrooms))

\* A computeStats without the totalRooms === 0 test.
StatsRunUnguarded(arr) ==
  IF Len(arr) > 0
  THEN [count |-> IntNum(Len(arr)),
        averagePricePerRoom |-> NumDiv(TotalPrice(arr), TotalRooms(arr)),
        divisors |-> <<TotalRooms(arr)>>]
  ELSE [count |-> IntNum(0), averagePricePerRoom |-> IntNum(0), divisors |-> <<>>]

\* One run of computeStats: the object it returns, with the divisors of the
\* divisions it executed.
StatsRun(arr) ==
  IF Len(arr) > 0
  THEN IF TotalRooms(arr) = IntNum(0)
       THEN [count |-> IntNum(Len(arr)), averagePricePerRoom |-> IntNum(0),
             divisors |-> <<>>]
       ELSE [count |-> IntNum(Len(arr)),
             averagePricePerRoom |-> NumDiv(TotalPrice(arr), TotalRooms(arr)),
             divisors |-> <<TotalRooms(arr)>>]
  ELSE [count |-> IntNum(0), averagePricePerRoom |-> IntNum(0), divisors |-> <<>>]

computeStats(arr) ==
  [count |-> StatsRun(arr).count,
   averagePricePerRoom |-> StatsRun(arr).averagePricePerRoom]

NoStats == [count |-> Undef, averagePricePerRoom |-> Undef]

\* ------------------------------------------ computeListingsByHost
UnknownKey == <<"u", "n", "k", "n", "o", "w", "n">>

ProtoKey == <<"_", "_", "p", "r", "o", "t", "o", "_", "_">>

ConstructorKey == <<"c", "o", "n", "s", "t", "r", "u", "c", "t", "o", "r">>

\* What reading a property that the accumulator {} does not own gives: the
\* member of Object.prototype of that name, or undefined.
InheritedValue(key) ==
  CASE key = ConstructorKey -> Obj(<<"function Object() { [native code] }">>)
    [] key = ProtoKey -> Obj(<<"[object Object]">>)
    [] OTHER -> Undef

\* The accumulator is the sequence of its own properties, in creation order.
HasOwn(acc, key) == \E i \in 1..Len(acc) : acc[i].key = key

OwnIndex(acc, key) == CHOOSE i \in 1..Len(acc) : acc[i].key = key

\* acc[key]
GetProp(acc, key) ==
  IF HasOwn(acc, key) THEN acc[OwnIndex(acc, key)].val ELSE InheritedValue(key)

\* acc[key] = val; assigning a primitive to __proto__ creates no property.
SetProp(acc, key, val) ==
  IF HasOwn(acc, key) THEN [acc EXCEPT ![OwnIndex(acc, key)].val = val]
  ELSE IF key = ProtoKey THEN acc
  ELSE Append(acc, [key |-> key, val |-> val])

\* listing.host_id || 'unknown'
HostKey(listing) ==
  IF Truthy(listing.host_id) THEN listing.host_id.s ELSE UnknownKey

\* The reducer: acc[hostKey] = (acc[hostKey] || 0) + 1.
CountHost(acc, listing) ==
  LET hostKey == HostKey(listing)
      old == GetProp(acc, hostKey)
  IN  SetProp(acc, hostKey, JsPlus(IF Truthy(old) THEN old ELSE IntNum(0), IntNum(1)))

RECURSIVE HostMap(_)
HostMap(arr) ==
  IF arr = <<>> THEN <<>>
  ELSE CountHost(HostMap(SubSeq(arr, 1, Len(arr) - 1)), arr[Len(arr)])

\* The decimal text of 2^32 - 2, the largest array index.
MaxIndexText == <<"4", "2", "9", "4", "9", "6", "7", "2", "9", "4">>

\* A canonical array index: the decimal text of an integer in 0 .. 2^32 - 2.
IsArrayIndex(key) ==
  /\ key # <<>>
  /\ Len(key) <= Len(MaxIndexText)
  /\ \A i \in 1..Len(key) : IsDigit(key[i])
  /\ (Len(key) = 1 \/ key[1] # "0")
  /\ (Len(key) = Len(MaxIndexText) => ~TextLess(MaxIndexText, key))

\* Numeric order of two canonical array indices, read off their texts.
IndexKeyBefore(a, b) ==
  \/ Len(a.key) < Len(b.key)
  \/ Len(a.key) = Len(b.key) /\ TextLess(a.key, b.key)

\* The comparator (a, b) => b.count - a.count puts a before b when it is
\* negative; a NaN result counts as 0.
CountBefore(a, b) ==
  LET diff == JsMinus(b.count, a.count)
  IN  diff.t = "num" /\ diff.n < 0

Before(order, a, b) ==
  IF order = "index" THEN IndexKeyBefore(a, b) ELSE CountBefore(a, b)

\* Stable insertion of x into a sequence in the given order (x goes after
\* every element it is not strictly before).
RECURSIVE InsertSorted(_, _, _)
InsertSorted(sorted, x, order) ==
  IF sorted # <<>> /\ Before(order, x, sorted[Len(sorted)])
  THEN Append(InsertSorted(SubSeq(sorted, 1, Len(sorted) - 1), x, order), sorted[Len(sorted)])
  ELSE Append(sorted, x)

RECURSIVE StableSort(_, _)
StableSort(q, order) ==
  IF q = <<>> THEN <<>>
  ELSE InsertSorted(StableSort(SubSeq(q, 1, Len(q) - 1), order), q[Len(q)], order)

\* An Object.entries that lists every key in creation order.
ObjectEntriesInCreationOrder(acc) == acc

\* Object.entries: the array-index keys in ascending numeric order, then the
\* other keys in creation order.
ObjectEntries(acc) ==
  StableSort(SelectSeq(acc, LAMBDA e : IsArrayIndex(e.key)), "index")
    \o SelectSeq(acc, LAMBDA e : ~IsArrayIndex(e.key))

\* .map(([host_id, count]) => ({ host_id, count }))
RankingEntries(entries) ==
  [i \in 1..Len(entries) |-> [host_id |-> entries[i].key, count |-> entries[i].val]]

computeListingsByHost(arr) ==
  StableSort(RankingEntries(ObjectEntries(HostMap(arr))), "count")

\* ---------------------------------------------------- exportResults
\* JSON.stringify writes a number that is NaN or infinite as null.
JsonNumber(v) == IF v.t \in {"nan", "inf"} THEN Null ELSE v

\* The value the text JSON.stringify(stats, null, 2) encodes.
StringifyStats(stats) ==
  [count |-> JsonNumber(stats.count),
   averagePricePerRoom |-> JsonNumber(stats.averagePricePerRoom)]

\* The value the text JSON.stringify(ranking, null, 2) encodes.
StringifyRanking(ranking) ==
  [i \in 1..Len(ranking) |->
     [host_id |-> ranking[i].host_id, count |-> JsonNumber(ranking[i].count)]]

\* A listing as JSON.stringify writes it: a NaN price as null, a property that
\* is undefined left out (it stays undefined here).
StringifyListing(l) == [f \in DOMAIN l |-> JsonNumber(l[f])]

\* The value the text JSON.stringify(listings, null, 2) encodes.
StringifyListings(arr) == [i \in 1..Len(arr) |-> StringifyListing(arr[i])]

NoFile == [kind |-> "none", stats |-> NoStats, ranking |-> <<>>, listings |-> <<>>]

\* No export is waiting for its write.
NoPending == [state |-> "none", kind |-> "none", text |-> NoFile, taken |-> <<>>,
              at |-> 0, settled |-> 0]

\* ------------------------------------------------------------- state
VARIABLES
  pc,          \* "start" before the load, "ready" with a handler (at the menu),
               \* "exited", "crashed", "done" (loop left by choice 5), "failed"
               \* (an exception left main)
  input,       \* the data rows of the file
  heap,        \* the arrays that exist, by reference (index)
  _listings,   \* the handler's working set: a reference into heap
  callerRef,   \* the array reference the caller got from getListings (0: none)
  applied,     \* the bounds of every filterListings call that returned, in order
  last,        \* the last call: its name, argument, outcome and the set before it
  prev,        \* the call before the last one: its name and result
  file,        \* what the last successful export wrote
  calls,       \* the number of calls made after the load
  proc,        \* the process: its path argument, exit code and load outcome
  pending      \* the export whose write has not settled yet, if any

vars ==
  <<pc, input, heap, _listings, callerRef, applied, last, prev, file, calls, proc,
    pending>>

Current == heap[_listings]

NoCall ==
  [op |-> "none", arg |-> NoArg, before |-> <<>>, raised |-> FALSE,
   stats |-> NoStats, ranking |-> <<>>, divisors |-> <<>>,
   unwritable |-> FALSE, writes |-> 0,
   via |-> "call", from |-> <<>>, returned |-> "none", answers |-> <<>>]

Summary(call) ==
  [op |-> call.op, arg |-> call.arg, before |-> call.before,
   stats |-> call.stats, ranking |-> call.ranking]

\* The process before main runs. argv is "none" (no path argument), "missing"
\* (a path no file can be read from) or "ok"; exit is -1 while it runs; rl is
\* the readline interface: "none" before it is created, "open" or "closed".
Started(argv) ==
  [argv |-> argv, exit |-> -1, reads |-> 0, rejected |-> FALSE, rethrown |-> FALSE,
   rl |-> "none"]

Init ==
  /\ pc = "start"
  /\ \/ proc = Started("ok") /\ input \in SeqsUpTo(RowPalette, MaxRows)
     \/ proc \in {Started("none"), Started("missing")} /\ input = <<>>
  /\ heap = <<>>
  /\ _listings = 0
  /\ callerRef = 0
  /\ applied = <<>>
  /\ last = NoCall
  /\ prev = Summary(NoCall)
  /\ file = NoFile
  /\ calls = 0
  /\ pending = NoPending

\* The stream parseCSV registers its 'error' listener on: the one pipe()
\* returns, which is the CSV reader.
ErrorListenerOn == "csv"

\* The stream that emits 'error' when the file cannot be read.
ReadErrorFrom == "file"

\* An 'error' event reaches reject(error) only on the stream that has the
\* listener; on a stream without one it is thrown as an uncaught exception.
ReadErrorRejects == ErrorListenerOn = ReadErrorFrom

\* main up to the menu loop: the path argument, then loadAirBnBData (parseCSV
\* and createAirBnBDataHandler, which copies the parsed array into _listings).
\* No path: exit code 1. A rejected load is rethrown by loadAirBnBData and main
\* exits with code 1. An exception nothing catches (an unhandled 'error'
\* event, a row without a price in the 'data' callback) ends the process with
\* code 1 without settling the load. After a load main creates the readline
\* interface and shows the menu.
Load ==
  /\ pc = "start"
  /\ CASE proc.argv = "none" ->
            /\ pc' = "exited"
            /\ proc' = [proc EXCEPT !.exit = 1]
            /\ UNCHANGED <<heap, _listings>>
       [] proc.argv = "missing" /\ ReadErrorRejects ->
            /\ pc' = "exited"
            /\ proc' = [proc EXCEPT !.exit = 1, !.reads = 1, !.rejected = TRUE,
                                    !.rethrown = TRUE]
            /\ UNCHANGED <<heap, _listings>>
       [] proc.argv = "missing" /\ ~ReadErrorRejects ->
            /\ pc' = "crashed"
            /\ proc' = [proc EXCEPT !.exit = 1, !.reads = 1]
            /\ UNCHANGED <<heap, _listings>>
       [] proc.argv = "ok" /\ AnyRowThrows(input) ->
            /\ pc' = "crashed"
            /\ proc' = [proc EXCEPT !.exit = 1, !.reads = 1]
            /\ UNCHANGED <<heap, _listings>>
       [] OTHER ->
            /\ pc' = "ready"
            /\ proc' = [proc EXCEPT !.reads = 1, !.rl = "open"]
            /\ heap' = <<parseCSV(input), parseCSV(input)>>
            /\ _listings' = 2
  /\ UNCHANGED <<input, callerRef, applied, last, prev, file, calls, pending>>

CanCall == pc = "ready" /\ calls < MaxCalls

Called(call) ==
  /\ last' = call
  /\ prev' = Summary(last)
  /\ calls' = calls + 1

\* A filterListings that returns the filtered array.
FilterReturnsArray == "array"

\* What filterListings returns: the handler it was called on.
FilterReturns == "handler"

\* A filterListings that removes the rejected listings from the array
\* _listings refers to.
FilterListingsInPlace(arg) ==
  /\ CanCall
  /\ IF DestructureThrows(arg)
     THEN /\ UNCHANGED <<heap, applied>>
          /\ Called([NoCall EXCEPT !.op = "filterListings", !.arg = arg,
                                   !.before = Current, !.raised = TRUE])
     ELSE /\ heap' = [heap EXCEPT ![_listings] = FilterArray(Current, Destructure(arg))]
          /\ applied' = Append(applied, Destructure(arg))
          /\ Called([NoCall EXCEPT !.op = "filterListings", !.arg = arg,
                                   !.before = Current,
                                   !.returned = FilterReturns])
  /\ UNCHANGED <<pc, input, _listings, callerRef, file, proc, pending>>

\* handler.filterListings(arg)
FilterListings(arg) ==
  /\ CanCall
  /\ IF DestructureThrows(arg)
     THEN /\ UNCHANGED <<heap, _listings, applied>>
          /\ Called([NoCall EXCEPT !.op = "filterListings", !.arg = arg,
                                   !.before = Current, !.raised = TRUE])
     ELSE /\ heap' = Append(heap, FilterArray(Current, Destructure(arg)))
          /\ _listings' = Len(heap) + 1
          /\ applied' = Append(applied, Destructure(arg))
          /\ Called([NoCall EXCEPT !.op = "filterListings", !.arg = arg,
                                   !.before = Current,
                                   !.returned = FilterReturns])
  /\ UNCHANGED <<pc, input, callerRef, file, proc, pending>>

\* handler.getListings(): the caller receives the reference _listings holds.
GetListings ==
  /\ CanCall
  /\ callerRef' = _listings
  /\ Called([NoCall EXCEPT !.op = "getListings", !.before = Current])
  /\ UNCHANGED <<pc, input, heap, _listings, applied, file, proc, pending>>

\* handler.computeStats()
ComputeStats ==
  /\ CanCall
  /\ Called([NoCall EXCEPT !.op = "computeStats", !.before = Current,
                           !.stats = computeStats(Current),
                           !.divisors = StatsRun(Current).divisors])
  /\ UNCHANGED <<pc, input, heap, _listings, callerRef, applied, file, proc, pending>>

\* A computeListingsByHost that stores the host key it counted back into each
\* listing.
ComputeListingsByHostStoringKeys ==
  /\ CanCall
  /\ heap' = [heap EXCEPT ![_listings] =
                [i \in 1..Len(Current) |->
                   [Current[i] EXCEPT !.host_id = Str(HostKey(Current[i]))]]]
  /\ Called([NoCall EXCEPT !.op = "computeListingsByHost", !.before = Current,
                           !.ranking = computeListingsByHost(Current)])
  /\ UNCHANGED <<pc, input, _listings, callerRef, applied, file, proc, pending>>

\* handler.computeListingsByHost()
ComputeListingsByHost ==
  /\ CanCall
  /\ Called([NoCall EXCEPT !.op = "computeListingsByHost", !.before = Current,
                           !.ranking = computeListingsByHost(Current)])
  /\ UNCHANGED <<pc, input, heap, _listings, callerRef, applied, file, proc, pending>>

\* The state an export leaves: JSON.stringify, then one awaited writeFile; the
\* call raises exactly when `raises` holds.
Exported(what, writable, raises) ==
  LET stats == IF what = "stats" THEN computeStats(Current) ELSE NoStats
      ranking == IF what = "hostRanking" THEN computeListingsByHost(Current) ELSE <<>>
  IN  /\ Called([NoCall EXCEPT !.op = "exportResults", !.before = Current,
                               !.stats = stats, !.ranking = ranking,
                               !.unwritable = ~writable, !.writes = 1,
                               !.raised = raises])
      /\ file' = IF writable
                 THEN [kind |-> what, stats |-> StringifyStats(stats),
                       ranking |-> StringifyRanking(ranking), listings |-> <<>>]
                 ELSE file

\* An exportResults that catches the write error and returns normally.
ExportResultsSwallowing(what, writable) ==
  /\ CanCall
  /\ Exported(what, writable, FALSE)
  /\ UNCHANGED <<pc, input, heap, _listings, callerRef, applied, proc, pending>>

\* handler.exportResults(path, data), data being the view the front end has
\* just computed; the write succeeds, or fails and the awaited rejection
\* leaves the function.
ExportResults(what, writable) ==
  /\ CanCall
  /\ Exported(what, writable, ~writable)
  /\ UNCHANGED <<pc, input, heap, _listings, callerRef, applied, proc, pending>>

\* The listing a caller appends in CallerEdits.
ExtraListing ==
  CoerceRow(RowObject(<<<<"B">>, <<"1">>, <<"4", "0">>, <<"5", "0">>>>))

EditArray(arr, how) ==
  CASE how = "pop" -> IF arr = <<>> THEN arr ELSE SubSeq(arr, 1, Len(arr) - 1)
    [] how = "reverse" -> [i \in 1..Len(arr) |-> arr[Len(arr) + 1 - i]]
    [] how = "push" -> Append(arr, ExtraListing)

\* The caller changes the array it got from getListings (pop, reverse, push).
CallerEdits(how) ==
  /\ CanCall
  /\ callerRef # 0
  /\ heap' = [heap EXCEPT ![callerRef] = EditArray(heap[callerRef], how)]
  /\ Called([NoCall EXCEPT !.op = "callerEdits", !.before = Current])
  /\ UNCHANGED <<pc, input, _listings, callerRef, applied, file, proc, pending>>

\* The views a call can be chained to after filterListings.
ChainOps == {"getListings", "computeStats", "computeListingsByHost"}

\* handler.filterListings(arg).then() as one statement: filterListings runs
\* first and assigns _listings; `then` is called on what it returned, and is a
\* TypeError on anything that is not the handler. via and answers say where the
\* statement came from.
ChainedCall(arg, then, via, answers) ==
  LET narrowed == FilterArray(Current, Destructure(arg))
      call == [NoCall EXCEPT !.op = then, !.arg = arg, !.via = via,
                             !.answers = answers, !.from = Current]
  IN  /\ calls' = calls + 1
      /\ IF DestructureThrows(arg)
         THEN /\ UNCHANGED <<heap, _listings, applied, callerRef>>
              /\ last' = [call EXCEPT !.before = Current, !.raised = TRUE]
              /\ prev' = Summary(last)
         ELSE /\ heap' = Append(heap, narrowed)
              /\ _listings' = Len(heap) + 1
              /\ applied' = Append(applied, Destructure(arg))
              /\ prev' = Summary([NoCall EXCEPT !.op = "filterListings", !.arg = arg,
                                                 !.before = Current])
              /\ IF FilterReturns = "handler"
                 THEN /\ callerRef' = IF then = "getListings"
                                      THEN Len(heap) + 1 ELSE callerRef
                      /\ last' =
                           [call EXCEPT
                              !.before = narrowed,
                              !.returned = FilterReturns,
                              !.stats = IF then = "computeStats"
                                        THEN computeStats(narrowed) ELSE NoStats,
                              !.divisors = IF then = "computeStats"
                                           THEN StatsRun(narrowed).divisors ELSE <<>>,
                              !.ranking = IF then = "computeListingsByHost"
                                          THEN computeListingsByHost(narrowed)
                                          ELSE <<>>]
                 ELSE /\ UNCHANGED callerRef
                      /\ last' = [call EXCEPT !.before = narrowed,
                                              !.returned = FilterReturns,
                                              !.raised = TRUE]
      /\ UNCHANGED <<pc, input, file, proc, pending>>

\* The arguments of the chained statements.
ChainArgs ==
  { NullArg,
    EmptyObjArg,
    ObjArg([minPrice |-> IntNum(100)]),
    ObjArg([maxRooms |-> IntNum(2), minReview |-> IntNum(80)]) }

\* A chained statement of a program that uses the handler.
Chained(arg, then) ==
  /\ CanCall
  /\ ChainedCall(arg, then, "chain", <<>>)

\* The six answers of the filter dialogue, each a line of text; the dialogues
\* the model tries.
NoAnswer == [f \in BoundNames |-> <<>>]

AnswerPalette ==
  { NoAnswer,
    [NoAnswer EXCEPT !.minPrice = <<"1", "0", "0">>],
    [NoAnswer EXCEPT !.maxPrice = <<" ">>],
    [NoAnswer EXCEPT !.minRooms = <<"0">>],
    [NoAnswer EXCEPT !.maxRooms = <<"2">>, !.minReview = <<"8", "0">>],
    [NoAnswer EXCEPT !.maxReview = <<" ", "9", "0">>, !.minPrice = <<" ", " ">>] }

\* answer ? Number(answer) : undefined
AnswerBound(answer) ==
  IF Truthy(Str(answer)) THEN ToNumber(Str(answer)) ELSE Undef

\* The criteria object menu choice 1 builds from the six answers.
FilterCriteria(answers) ==
  [kind |-> "obj", b |-> [f \in BoundNames |-> AnswerBound(answers[f])]]

\* Menu choice 1: the six questions, then
\* airbnbHandler.filterListings(filterCriteria).getListings().
MenuFilter(answers) ==
  /\ CanCall
  /\ ChainedCall(FilterCriteria(answers), "getListings", "menu", answers)

Next ==
  \/ Load
  \/ \E arg \in ArgPalette : FilterListings(arg)
  \/ GetListings
  \/ ComputeStats
  \/ ComputeListingsByHost
  \/ \E what \in {"stats", "hostRanking"}, writable \in BOOLEAN : ExportResults(what, writable)
  \/ \E how \in {"pop", "reverse", "push"} : CallerEdits(how)

Spec == Init /\ [][Next]_vars

\* The front end and programs that chain: the menu's filter dialogue, its two
\* views, and chained statements.
NextChained ==
  \/ Load
  \/ \E answers \in AnswerPalette : MenuFilter(answers)
  \/ \E arg \in ChainArgs, then \in ChainOps : Chained(arg, then)
  \/ ComputeStats
  \/ ComputeListingsByHost

SpecChained == Init /\ [][NextChained]_vars

\* What a program passes to exportResults: the stats object, the ranking, or
\* the array getListings() returns.
ExportKinds == {"stats", "hostRanking", "listings"}

\* const jsonString = JSON.stringify(data, null, 2), for the data computed
\* from the set `set`.
JsonString(what, set) ==
  [kind |-> what,
   stats |-> StringifyStats(IF what = "stats" THEN computeStats(set) ELSE NoStats),
   ranking |-> StringifyRanking(IF what = "hostRanking"
                                THEN computeListingsByHost(set) ELSE <<>>),
   listings |-> StringifyListings(IF what = "listings" THEN set ELSE <<>>)]

\* handler.exportResults(path, data) up to its await, in a program that does
\* not wait for it: the data is computed from the current set, jsonString is
\* built before the function first yields, and the write is left pending.
ExportStart(what) ==
  /\ CanCall
  /\ pending.state # "pending"
  /\ pending' = [state |-> "pending", kind |-> what,
                 text |-> JsonString(what, Current), taken |-> Current,
                 at |-> calls + 1, settled |-> 0]
  /\ callerRef' = IF what = "listings" THEN _listings ELSE callerRef
  /\ Called([NoCall EXCEPT !.op = "exportResults", !.before = Current,
                           !.via = "pending"])
  /\ UNCHANGED <<pc, input, heap, _listings, applied, file, proc>>

\* A write that encodes the handler's set as it is when the write is made.
WriteSettlesReadingCurrent(writable) ==
  /\ pc = "ready"
  /\ pending.state = "pending"
  /\ pending' = [pending EXCEPT !.state = IF writable THEN "written" ELSE "failed",
                                !.settled = calls]
  /\ file' = IF writable THEN JsonString(pending.kind, Current) ELSE file
  /\ UNCHANGED <<pc, input, heap, _listings, callerRef, applied, last, prev, calls,
                 proc>>

\* The pending writeFile(outputPath, jsonString) settles: the text built at the
\* call is written, or the write fails.
WriteSettles(writable) ==
  /\ pc = "ready"
  /\ pending.state = "pending"
  /\ pending' = [pending EXCEPT !.state = IF writable THEN "written" ELSE "failed",
                                !.settled = calls]
  /\ file' = IF writable THEN pending.text ELSE file
  /\ UNCHANGED <<pc, input, heap, _listings, callerRef, applied, last, prev, calls,
                 proc>>

\* A program that calls the handler while an export is pending.
NextPending ==
  \/ Load
  \/ \E what \in ExportKinds : ExportStart(what)
  \/ \E writable \in BOOLEAN : WriteSettles(writable)
  \/ \E arg \in ArgPalette : FilterListings(arg)

SpecPending == Init /\ [][NextPending]_vars

\* What the user can answer to the export question.
ExportChoices == {"listings", "stats", "hostRanking", "other"}

\* Menu choice 4. "listings" computes a ranking and only prints a notice,
\* "stats" and "hostRanking" compute the view and await exportResults, any
\* other answer is reported invalid. Nothing around the await catches: a
\* rejected export leaves the loop and main, and the handler main().catch
\* installs logs it; rl.close() is not reached.
MenuExport(choice, writable) ==
  /\ CanCall
  /\ CASE choice \in {"stats", "hostRanking"} ->
            /\ Exported(choice, writable, ~writable)
            /\ pc' = IF writable THEN pc ELSE "failed"
       [] choice = "listings" ->
            /\ Called([NoCall EXCEPT !.op = "menuExport", !.before = Current,
                                     !.ranking = computeListingsByHost(Current)])
            /\ UNCHANGED <<pc, file>>
       [] OTHER ->
            /\ Called([NoCall EXCEPT !.op = "menuExport", !.before = Current])
            /\ UNCHANGED <<pc, file>>
  /\ UNCHANGED <<input, heap, _listings, callerRef, applied, proc, pending>>

\* Menu choice 5: exitRequested ends the loop, rl.close() follows and the
\* process can end.
MenuExit ==
  /\ CanCall
  /\ pc' = "done"
  /\ proc' = [proc EXCEPT !.rl = "closed", !.exit = 0]
  /\ Called([NoCall EXCEPT !.op = "exit", !.before = Current])
  /\ UNCHANGED <<input, heap, _listings, callerRef, applied, file, pending>>

\* Any other answer to the menu: a notice, and the loop goes on.
MenuInvalid ==
  /\ CanCall
  /\ Called([NoCall EXCEPT !.op = "invalid", !.before = Current])
  /\ UNCHANGED <<pc, input, heap, _listings, callerRef, applied, file, proc, pending>>

\* The session of the command-line front end: the load, then menu iterations.
NextCli ==
  \/ Load
  \/ \E answers \in AnswerPalette : MenuFilter(answers)
  \/ ComputeStats
  \/ ComputeListingsByHost
  \/ \E choice \in ExportChoices, writable \in BOOLEAN : MenuExport(choice, writable)
  \/ MenuExit
  \/ MenuInvalid

SpecCli == Init /\ [][NextCli]_vars

\* ------------------------------------------------------------ claims
\* The number a numeric field stands for: its numeric value, and 0 for a
\* field that is missing or not numeric (the coercion rule of the data model).
FieldNumber(v) ==
  LET x == ToNumber(v)
  IN  IF x.t = "num" THEN x ELSE IntNum(0)

\* "field >= bound" and "field <= bound", both inclusive.
AtLeast(v, b) == ~NumLess(FieldNumber(v), b)

AtMost(v, b) == ~NumLess(b, FieldNumber(v))

IsNumberBound(b) == b.t = "num"

\* The listing satisfies every bound of c that is a number.
SatisfiesBounds(l, c) ==
  /\ IsNumberBound(c.minPrice) => AtLeast(l.price, c.minPrice)
  /\ IsNumberBound(c.maxPrice) => AtMost(l.price, c.maxPrice)
  /\ IsNumberBound(c.minRooms) => AtLeast(l.bedrooms, c.minRooms)
  /\ IsNumberBound(c.maxRooms) => AtMost(l.bedrooms, c.maxRooms)
  /\ IsNumberBound(c.minReview) => AtLeast(l.review_scores_rating, c.minReview)
  /\ IsNumberBound(c.maxReview) => AtMost(l.review_scores_rating, c.maxReview)

\* Every bound of the argument is omitted or a number.
PlainArg(arg) ==
  arg.kind # "null" /\ \A f \in BoundNames : arg.b[f].t \in {"undef", "num"}

\* All six bounds of the argument are omitted.
NoBoundArg(arg) ==
  arg.kind = "undef" \/ (arg.kind = "obj" /\ arg.b = NoBounds)

\* Every bound of the argument is omitted or invalid (null, NaN, non-numeric).
NoValidBoundArg(arg) ==
  \A f \in BoundNames : ToNumber(arg.b[f]).t # "num" \/ arg.b[f].t = "null"

Filtered == last.op = "filterListings"

\* Every data row of the file has a cell for every column of the header.
WellFormedInput == \A i \in 1..Len(input) : Len(input[i]) = Len(Headers)

\* C1: after filterListings(criteria) the current set is exactly the
\* subsequence of the previous set made of the listings that satisfy every
\* supplied bound (inclusive), in the same order (stated for well-formed files
\* and bounds that are numbers).
C1_FilterKeepsExactlyTheSatisfying ==
  (Filtered /\ PlainArg(last.arg) /\ WellFormedInput) =>
     /\ ~last.raised
     /\ Current = SelectSeq(last.before, LAMBDA l : SatisfiesBounds(l, last.arg.b))

\* C2: over any sequence of filterListings calls the size of the set never
\* increases, and after each call every listing of the set satisfies all the
\* bounds of all the calls made so far (stated for well-formed files and for
\* sessions in which the caller holds no reference to the set).
C2_FilteringIsCumulative ==
  (Filtered /\ ~last.raised /\ callerRef = 0 /\ WellFormedInput) =>
     /\ Len(Current) <= Len(last.before)
     /\ \A i \in 1..Len(Current), k \in 1..Len(applied) :
          SatisfiesBounds(Current[i], applied[k])

\* C3: filterListings with all six bounds omitted (no argument, an empty
\* object, six undefined bounds) leaves the current set unchanged.
C3_NoBoundsIsNoOp ==
  (Filtered /\ NoBoundArg(last.arg)) => (~last.raised /\ Current = last.before)

C3_Witness ==
  /\ Filtered
  /\ NoBoundArg(last.arg)
  /\ Len(last.before) = 2
  /\ \E i \in 1..2 : NumLess(IntNum(0), ToNumber(last.before[i].price))

\* C4: filterListings never raises, whatever the argument (null included), and
\* a bound that is absent or invalid (null, NaN, non-numeric) removes no
\* listing.
C4_InvalidBoundsAreIgnored ==
  Filtered =>
     /\ ~last.raised
     /\ NoValidBoundArg(last.arg) => Current = last.before

RECURSIVE SumOf(_, _)
SumOf(q, field) ==
  IF q = <<>> THEN IntNum(0)
  ELSE NumAdd(SumOf(SubSeq(q, 1, Len(q) - 1), field), FieldNumber(q[Len(q)][field]))

IsNumber(v) == v.t = "num"

ComputedStats == last.op = "computeStats"

\* C5: computeStats() returns count = the size of the current set and, when
\* the set is non-empty and the summed bedrooms is not 0, averagePricePerRoom =
\* (sum of price) / (sum of bedrooms); both fields are numbers for every set
\* the parser can produce (stated for well-formed files).
C5_StatsAreTheSums ==
  (ComputedStats /\ WellFormedInput) =>
     /\ last.stats.count = IntNum(Len(last.before))
     /\ IsNumber(last.stats.count)
     /\ IsNumber(last.stats.averagePricePerRoom)
     /\ (Len(last.before) > 0 /\ SumOf(last.before, "bedrooms") # IntNum(0)) =>
          last.stats.averagePricePerRoom =
            NumDiv(SumOf(last.before, "price"), SumOf(last.before, "bedrooms"))

AllBedroomsZero(q) == \A i \in 1..Len(q) : ToNumber(q[i].bedrooms) = IntNum(0)

\* C6: computeStats() returns {count: 0, averagePricePerRoom: 0} on the empty
\* set, averagePricePerRoom = 0 when every listing has bedrooms = 0 whatever
\* the prices are, and never divides by zero.
C6_NoDivisionByZero ==
  ComputedStats =>
     /\ last.before = <<>> =>
          last.stats = [count |-> IntNum(0), averagePricePerRoom |-> IntNum(0)]
     /\ AllBedroomsZero(last.before) => last.stats.averagePricePerRoom = IntNum(0)
     /\ \A i \in 1..Len(last.divisors) : last.divisors[i] # IntNum(0)

C6_Witness ==
  /\ ComputedStats
  /\ last.before # <<>>
  /\ AllBedroomsZero(last.before)
  /\ \E i \in 1..Len(last.before) : NumLess(IntNum(0), ToNumber(last.before[i].price))
  /\ last.stats.averagePricePerRoom = IntNum(0)

\* The host key of a listing: its host_id, or "unknown" when that is empty or
\* missing.
ClaimedHostKey(l) == IF l.host_id.t = "str" /\ l.host_id.s # <<>> THEN l.host_id.s ELSE UnknownKey

HostKeysOf(q) == {ClaimedHostKey(q[i]) : i \in 1..Len(q)}

ListingsOfHost(q, key) == Cardinality({i \in 1..Len(q) : ClaimedHostKey(q[i]) = key})

Ranked == last.op = "computeListingsByHost"

\* C7: computeListingsByHost() returns one {host_id, count} entry per distinct
\* host key (host_id, or "unknown" when empty or missing), each count the
\* number of listings with that key, ordered by count descending, and leaves
\* the host_id stored in the listings unchanged.
C7_RankingCountsEveryHost ==
  (Ranked /\ WellFormedInput) =>
     /\ Len(last.ranking) = Cardinality(HostKeysOf(last.before))
     /\ \A key \in HostKeysOf(last.before) :
          \E i \in 1..Len(last.ranking) :
             /\ last.ranking[i].host_id = key
             /\ last.ranking[i].count = IntNum(ListingsOfHost(last.before, key))
     /\ \A i \in 1..(Len(last.ranking) - 1) :
          ~NumLess(FieldNumber(last.ranking[i].count), FieldNumber(last.ranking[i + 1].count))
     /\ Current = last.before

\* C8: computeStats() and computeListingsByHost() leave the current set (its
\* listings, their fields, their order) unchanged, and two consecutive calls
\* of the same view return equal results.
C8_ViewsAreReadOnly ==
  (ComputedStats \/ Ranked) =>
     /\ Current = last.before
     /\ prev.op = last.op => (last.stats = prev.stats /\ last.ranking = prev.ranking)

C8_Witness ==
  /\ Ranked
  /\ prev.op = "computeListingsByHost"
  /\ Len(last.ranking) = 2
  /\ \E i \in 1..Len(Current) : ~Truthy(Current[i].host_id)

\* C9: filterListings is the only thing that changes the working set: no
\* getListings, computeStats, computeListingsByHost or exportResults call
\* changes it, and nothing the caller does to the value getListings()
\* returned changes what the store reports.
C9_OnlyFilterChangesTheSet ==
  (pc = "ready" /\ last.op \notin {"none", "filterListings"}) => Current = last.before

\* C10: parsing a well-formed file of N data rows yields N listings in row
\* order, each with price, bedrooms and review_scores_rating of numeric type.
C10_ParsedFieldsAreNumeric ==
  (pc = "ready" /\ WellFormedInput) =>
     /\ Len(heap[1]) = Len(input)
     /\ \A i \in 1..Len(heap[1]) :
          /\ heap[1][i].host_id = Str(input[i][ColumnOf("host_id")])
          /\ heap[1][i].price.t \in {"num", "nan"}
          /\ heap[1][i].bedrooms.t \in {"num", "nan"}
          /\ heap[1][i].review_scores_rating.t \in {"num", "nan"}

\* The coercion of a numeric field's text: every character that is not a
\* digit or a decimal point is dropped, the rest is read as a decimal number,
\* and a text that cannot be read so counts as 0.
CoercedOrZero(chars) ==
  LET x == UnsignedDecimal(SelectSeq(chars, LAMBDA c : IsDigit(c) \/ c = "."))
  IN  IF x.t = "num" THEN x ELSE IntNum(0)

\* C11: the numeric coercion of a field's text strips every character that is
\* not a digit or a decimal point and parses the rest; for every text, one
\* that is empty or still does not parse (two decimal points) included, the
\* field is a number, 0 when the text does not parse (stated for the price of
\* well-formed files).
C11_CoercionFallsBackToZero ==
  (pc = "ready" /\ WellFormedInput) =>
     \A i \in 1..Len(input) :
        heap[1][i].price = CoercedOrZero(input[i][ColumnOf("price")])

\* C12: parsing raises no error for a malformed row: whatever the rows, a row
\* with fewer values than the header has columns included, the load completes
\* with one listing per row, and each column a row is too short for reads as
\* empty text, or as 0 where the field is numeric.
C12_MalformedRowsAreTolerated ==
  (pc # "start" /\ proc.argv = "ok") =>
     /\ pc = "ready"
     /\ Len(heap[1]) = Len(input)
     /\ \A i \in 1..Len(input) :
          \A k \in (Len(input[i]) + 1)..Len(Headers) :
             heap[1][i][Headers[k]] \in {Str(<<>>), IntNum(0)}

\* C13: when the file cannot be read, the load fails once with the failure
\* rethrown to its caller, returns no handler and is not retried; and with no
\* path argument or a failed load the process ends with a non-zero exit code
\* before any handler operation is called.
C13_LoadFailureIsRethrown ==
  (pc # "start" /\ proc.argv # "ok") =>
     /\ pc # "ready"
     /\ proc.exit > 0
     /\ heap = <<>> /\ calls = 0 /\ last = NoCall
     /\ proc.argv = "none" => proc.reads = 0
     /\ proc.argv = "missing" =>
          proc.reads = 1 /\ proc.rejected /\ proc.rethrown

\* C14: when the destination is unwritable, exportResults raises the write
\* error to its caller after a single write attempt, and the current set (and
\* every array of the store) is the same after the failed export as before it.
C14_ExportFailurePropagates ==
  (last.op = "exportResults" /\ last.unwritable) =>
     /\ last.raised
     /\ last.writes = 1
     /\ Current = last.before

C14_Witness ==
  /\ last.op = "exportResults" /\ last.unwritable
  /\ last.before # <<>> /\ last.stats # NoStats

\* What JSON.parse reads back from the text of an exported stats object.
DecodedStats == file.stats

\* C15: exporting the stats object computeStats() returns and decoding the
\* written text gives back the same count and the same averagePricePerRoom.
C15_StatsExportRoundTrips ==
  (last.op = "exportResults" /\ ~last.raised /\ file.kind = "stats") =>
     /\ DecodedStats.count = last.stats.count
     /\ DecodedStats.averagePricePerRoom = last.stats.averagePricePerRoom

\* The result the view `op` gives on the set `set`, as the call record holds it.
ViewResult(op, set) ==
  [stats |-> IF op = "computeStats" THEN computeStats(set) ELSE NoStats,
   ranking |-> IF op = "computeListingsByHost"
               THEN computeListingsByHost(set) ELSE <<>>]

\* C16: filterListings returns the handler it was called on: in a chained
\* statement handler.filterListings(c).op() the chained operation does not
\* fail, observes the set already narrowed by c, and gives the result that
\* filterListings(c) followed by op as a separate statement gives (the view of
\* the narrowed set, which stays the current set).
C16_ChainingObservesTheNarrowedSet ==
  (last.via # "call" /\ ~DestructureThrows(last.arg)) =>
     /\ last.returned = "handler"
     /\ ~last.raised
     /\ last.before = FilterArray(last.from, Destructure(last.arg))
     /\ Current = last.before
     /\ [stats |-> last.stats, ranking |-> last.ranking]
          = ViewResult(last.op, FilterArray(last.from, Destructure(last.arg)))
     /\ last.op = "getListings" => heap[callerRef] = last.before

C16_Witness ==
  /\ last.via = "chain" /\ last.op = "computeStats" /\ ~last.raised
  /\ Len(last.before) < Len(last.from)
  /\ last.before # <<>>

\* An answer that is empty or only whitespace.
IsBlank(answer) == Trim(answer) = <<>>

\* C19: in the filter dialogue each answer gives its own bound: a blank answer
\* (empty, or only whitespace) gives an omitted bound, so that six blank
\* answers leave the current set unchanged, and a non-blank numeric answer, "0"
\* included, gives that number.
C19_BlankAnswersOmitBounds ==
  last.via = "menu" =>
     /\ \A f \in BoundNames :
          /\ IsBlank(last.answers[f]) => last.arg.b[f] = Undef
          /\ (~IsBlank(last.answers[f]) /\ UnsignedDecimal(Trim(last.answers[f])).t = "num")
                => last.arg.b[f] = UnsignedDecimal(Trim(last.answers[f]))
     /\ (\A f \in BoundNames : IsBlank(last.answers[f])) => Current = last.from

\* C17: filterListings is a pure function: the working set that getListings,
\* computeStats and computeListingsByHost read is the same after a call as
\* before it.
C17_FilterListingsIsPure ==
  (Filtered /\ ~last.raised) => Current = last.before

\* C18: filtering replaces the working set wholesale: across a filterListings
\* call, the array the caller obtained from getListings() before the call
\* keeps its elements and their order, and so does the initial array given to
\* the factory.
C18_FilteringReplacesWholesale ==
  [][(last'.op = "filterListings" /\ calls' = calls + 1) =>
        /\ heap'[1] = heap[1]
        /\ callerRef # 0 => heap'[callerRef] = heap[callerRef]]_vars

C18_Witness ==
  /\ Filtered /\ ~last.raised
  /\ callerRef # 0 /\ callerRef # _listings
  /\ heap[callerRef] = last.before
  /\ Len(Current) < Len(last.before)
  /\ heap[1] = parseCSV(input)

\* The position in q of the first listing of the host.
FirstListing(q, key) ==
  CHOOSE i \in 1..Len(q) :
    /\ ClaimedHostKey(q[i]) = key
    /\ \A j \in 1..(i - 1) : ClaimedHostKey(q[j]) # key

\* Two entries of a ranking count the same.
Tied(ranking, i, j) == ranking[i].count = ranking[j].count

\* C20 as stated: among hosts with the same count, the host whose first
\* listing appears earlier in the current set comes first in the ranking,
\* whatever the host_id text (digits only included).
C20_TiesInFirstAppearanceOrder ==
  Ranked =>
     \A i, j \in 1..Len(last.ranking) :
        (i < j /\ Tied(last.ranking, i, j)) =>
           FirstListing(last.before, last.ranking[i].host_id)
             < FirstListing(last.before, last.ranking[j].host_id)

\* The order of the own keys of an object: canonical array indices (digit-only
\* host ids) in ascending numeric order, then the other keys in order of first
\* appearance in q.
PropertyOrder(q, a, b) ==
  CASE IsArrayIndex(a) /\ IsArrayIndex(b) -> IndexKeyBefore([key |-> a], [key |-> b])
    [] IsArrayIndex(a) /\ ~IsArrayIndex(b) -> TRUE
    [] ~IsArrayIndex(a) /\ IsArrayIndex(b) -> FALSE
    [] OTHER -> FirstListing(q, a) < FirstListing(q, b)

\* C20, amended: when every count is a number, hosts with the same count are
\* ranked in property order: digit-only host ids first, in ascending numeric
\* order, then the other hosts in order of first appearance in the current set.
C20_TiesInPropertyOrder ==
  (Ranked /\ \A e \in 1..Len(last.ranking) : last.ranking[e].count.t = "num") =>
     \A i, j \in 1..Len(last.ranking) :
        (i < j /\ Tied(last.ranking, i, j)) =>
           PropertyOrder(last.before, last.ranking[i].host_id, last.ranking[j].host_id)

C20_Witness ==
  /\ Ranked
  /\ \A e \in 1..Len(last.ranking) : last.ranking[e].count.t = "num"
  /\ \E i, j \in 1..Len(last.ranking) :
        /\ i < j /\ Tied(last.ranking, i, j)
        /\ IsArrayIndex(last.ranking[i].host_id)
        /\ FirstListing(last.before, last.ranking[j].host_id)
             < FirstListing(last.before, last.ranking[i].host_id)

\* The set a filterListings(arg) call leaves when it starts from `set`: a call
\* that raises leaves it as it was.
AfterFilter(set, arg) ==
  IF DestructureThrows(arg) THEN set ELSE FilterArray(set, Destructure(arg))

\* The tighter of two bounds, an omitted bound giving way to the other: the
\* larger of two minima, the smaller of two maxima.
Tighter(f, a, b) ==
  CASE a = Undef -> b
    [] b = Undef -> a
    [] f \in {"minPrice", "minRooms", "minReview"} -> IF NumLess(a, b) THEN b ELSE a
    [] OTHER -> IF NumLess(b, a) THEN b ELSE a

\* The criteria that hold every bound of both arguments.
Conjunction(arg1, arg2) ==
  [kind |-> "obj",
   b |-> [f \in BoundNames |->
            Tighter(f, Destructure(arg1)[f], Destructure(arg2)[f])]]

\* The last two calls were filterListings(prev.arg) then filterListings(last.arg).
TwoFilters ==
  /\ prev.op = "filterListings"
  /\ Filtered /\ last.via = "call"

\* C21: filter composition is order-independent and idempotent: after
\* filterListings(c1) then filterListings(c2) the current set is the one that
\* c2 then c1 leave from the same starting set, and (for bounds that are
\* numbers) the one that a single call with the tighter of each pair of bounds
\* leaves; and when c1 = c2 the second call removes nothing.
C21_FiltersCommuteAndAreIdempotent ==
  TwoFilters =>
     /\ last.before = AfterFilter(prev.before, prev.arg)
     /\ Current = AfterFilter(AfterFilter(prev.before, last.arg), prev.arg)
     /\ (PlainArg(prev.arg) /\ PlainArg(last.arg)) =>
           Current = AfterFilter(prev.before, Conjunction(prev.arg, last.arg))
     /\ prev.arg = last.arg => Current = last.before

C21_Witness ==
  /\ TwoFilters
  /\ PlainArg(prev.arg) /\ PlainArg(last.arg) /\ prev.arg # last.arg
  /\ Len(prev.before) = 2 /\ Len(last.before) = 1 /\ Current = <<>>
  /\ AfterFilter(prev.before, last.arg) # last.before

C21_WitnessTwice ==
  /\ TwoFilters /\ prev.arg = last.arg
  /\ Len(last.before) < Len(prev.before)
  /\ Current # <<>>

\* The sum of the counts of a ranking whose counts are integers.
RECURSIVE CountSum(_)
CountSum(ranking) ==
  IF ranking = <<>> THEN 0
  ELSE ranking[1].count.n + CountSum(Tail(ranking))

\* C22: whatever host_id texts occur in the data, every count of
\* computeListingsByHost() is a positive integer, no two entries have the same
\* host_id, and the counts add up to computeStats().count, the number of
\* listings of the current set.
C22_CountsPartitionTheSet ==
  Ranked =>
     /\ \A i \in 1..Len(last.ranking) :
          /\ last.ranking[i].count.t = "num"
          /\ last.ranking[i].count.d = 1
          /\ last.ranking[i].count.n > 0
     /\ \A i, j \in 1..Len(last.ranking) :
          last.ranking[i].host_id = last.ranking[j].host_id => i = j
     /\ IntNum(CountSum(last.ranking)) = computeStats(last.before).count

\* C23: in a session every menu iteration comes back to the menu prompt,
\* whatever the choice and whatever the outcome of the operation (a failed
\* export included), except choice 5; the loop ends only on choice 5; and
\* whenever the loop has ended the readline interface is closed.
C23_EveryIterationReturnsToTheMenu ==
  calls > 0 =>
     /\ last.op # "exit" => (pc = "ready" /\ proc.rl = "open")
     /\ last.op = "exit" => pc = "done"
     /\ pc # "ready" => proc.rl = "closed"

\* C24: exportResults fixes what it writes when it is called: whatever
\* filterListings calls are made while the write is pending, the text written
\* is the encoding of the data as it was at the call, for a stats object, a
\* ranking and the array of getListings() alike.
C24_ExportWritesTheDataOfTheCall ==
  pending.state = "written" => file = JsonString(pending.kind, pending.taken)

C24_Witness ==
  /\ pending.state = "written" /\ pending.kind = "listings"
  /\ pending.settled > pending.at
  /\ Len(Current) < Len(pending.taken)
  /\ JsonString(pending.kind, Current) # file
====
